---- MODULE Spec2Model ----
(***************************************************************************)
(* A model of SimpleVector<Type> (simple_vector.h) and of the ArrayPtr<T>  *)
(* it is built on (array_ptr.h).                                           *)
(*                                                                         *)
(* The heap is a finite set of block addresses.  A block is live between   *)
(* new T[n] and delete[]; its slots hold values of Type, or Uninit for a   *)
(* slot that new T[n] left default-initialised and nobody wrote yet.       *)
(* An ArrayPtr is its ptr_ field: a block address or Null.  A SimpleVector *)
(* is the record of its three fields items_, size_ and capacity_.          *)
(* Four specifications share the operations: Spec (two vectors, any        *)
(* calls), SpecCalls (one vector, every call recorded), SpecPairs (two     *)
(* vectors, the calls that take another vector recorded) and SpecOwn (two  *)
(* ArrayPtr objects and two vectors on one heap).                          *)
(* Type is modelled as a small integer type; Type{} is 0; moving a value   *)
(* of Type copies it.  The two overloads of PushBack and of Insert         *)
(* (const Type& and Type&&) then do the same and are one action each.      *)
(* Arguments are values: they do not alias the vector's own storage.       *)
(* size_t arithmetic is modelled on the integers: the bounds below keep    *)
(* every quantity far from 2^64.                                           *)
(***************************************************************************)
EXTENDS Integers, Sequences, FiniteSets, TLC

\* ---------------------------------------------------------------- bounds
MaxVal == 1        \* values of Type are 0..MaxVal
MaxLen == 4        \* slots the heap has for the blocks the objects own

Val == 0..MaxVal
\* The SimpleVector objects of the program: two, so that swap and the
\* assignments have a second operand.
VecId == {1, 2}
\* The ArrayPtr objects that the program holds outside any SimpleVector.
PtrId == {1, 2}
\* A block has one slot at least, and an operation holds at most one
\* temporary SimpleVector (buffer, other_copy) besides the blocks in use.
Addr == 1..(MaxLen + 1)
Null == 0
Uninit == -1
DefaultValue == 0

VARIABLES
    heap,      \* Addr -> [live, data]: the blocks obtained from new T[n]
    faults,    \* memory errors seen so far: "double_free", "bad_access"
    vecs,      \* VecId -> the SimpleVector object (alive or not yet constructed)
    last,      \* the operation that ran last, its arguments, branch and result
    ptrs,      \* PtrId -> the ArrayPtr object (alive or not yet constructed)
    released   \* the raw pointers Release() handed to the caller

vars == <<heap, faults, vecs, last, ptrs, released>>

\* ------------------------------------------------------------------ heap
\* The memory is threaded through the operators as M = [mem, faults].

FreeAddrs(M) == {a \in Addr : ~M.mem[a].live}

\* new T[n] with n > 0: a block that is not live becomes live, its n slots
\* default-initialised.  Addresses are interchangeable, the lowest is taken.
New(M, n) ==
    LET a == CHOOSE x \in FreeAddrs(M) : \A y \in FreeAddrs(M) : x <= y
    IN [M |-> [M EXCEPT !.mem[a] = [live |-> TRUE, data |-> [i \in 1..n |-> Uninit]]],
        p |-> a]

\* delete[] p
Delete(M, p) ==
    IF p = Null THEN M
    ELSE IF ~M.mem[p].live THEN [M EXCEPT !.faults = @ \cup {"double_free"}]
    ELSE [M EXCEPT !.mem[p] = [live |-> FALSE, data |-> <<>>]]

ValidSlot(M, p, i) == p # Null /\ M.mem[p].live /\ i >= 0 /\ i < Len(M.mem[p].data)

\* ptr_[i] read; i counts from 0
Load(M, p, i) == IF ValidSlot(M, p, i) THEN M.mem[p].data[i + 1] ELSE Uninit

\* ptr_[i] = x
Store(M, p, i, x) ==
    IF ValidSlot(M, p, i) THEN [M EXCEPT !.mem[p].data[i + 1] = x]
    ELSE [M EXCEPT !.faults = @ \cup {"bad_access"}]

\* dst[di] = src[si]
CopySlot(M, sp, si, dp, di) ==
    IF ValidSlot(M, sp, si) THEN Store(M, dp, di, Load(M, sp, si))
    ELSE [M EXCEPT !.faults = @ \cup {"bad_access"}]

\* ------------------------------------------------------------- ArrayPtr
\* explicit ArrayPtr(size_t size)
ArrayPtrSize(M, size) == IF size > 0 THEN New(M, size) ELSE [M |-> M, p |-> Null]

\* ~ArrayPtr()
ArrayPtrDtor(M, p) == Delete(M, p)

\* explicit ArrayPtr(T* raw_ptr) noexcept
ArrayPtrRaw(raw_ptr) == raw_ptr

\* ArrayPtr(ArrayPtr&& other) noexcept
ArrayPtrMoveCtor(other) == [p |-> other, other |-> Null]

\* Move-assignment that forgets the block it had without delete[].
ArrayPtrMoveAssignNoDelete(M, p, other) == [M |-> M, p |-> other, other |-> Null]

\* ArrayPtr& operator=(ArrayPtr&& other), this != &other
ArrayPtrMoveAssign(M, p, other) == [M |-> Delete(M, p), p |-> other, other |-> Null]

\* T* Release() noexcept
ArrayPtrRelease(p) == [ret |-> p, p |-> Null]

\* void swap(ArrayPtr& other) noexcept
ArrayPtrSwap(p, other) == [p |-> other, other |-> p]

\* ------------------------------------------------- standard algorithms
\* std::copy / std::move(first, last, d_first): front to back
RECURSIVE StdCopy(_, _, _, _, _, _)
StdCopy(M, sp, first, lst, dp, dfirst) ==
    IF first >= lst THEN M
    ELSE StdCopy(CopySlot(M, sp, first, dp, dfirst), sp, first + 1, lst, dp, dfirst + 1)

\* std::copy_backward(first, last, d_last): back to front
RECURSIVE StdCopyBackward(_, _, _, _, _, _)
StdCopyBackward(M, sp, first, lst, dp, dlast) ==
    IF first >= lst THEN M
    ELSE StdCopyBackward(CopySlot(M, sp, lst - 1, dp, dlast - 1), sp, first, lst - 1, dp, dlast - 1)

\* std::fill / std::generate(first, last, ...) with one value
RECURSIVE StdFill(_, _, _, _, _)
StdFill(M, p, first, lst, x) ==
    IF first >= lst THEN M
    ELSE StdFill(Store(M, p, first, x), p, first + 1, lst, x)

\* std::copy(init.begin(), init.end(), begin())
RECURSIVE StdCopyList(_, _, _, _)
StdCopyList(M, init, p, k) ==
    IF k >= Len(init) THEN M
    ELSE StdCopyList(Store(M, p, k, init[k + 1]), init, p, k + 1)

\* --------------------------------------------------------- SimpleVector
\* A SimpleVector object: alive between construction and destruction.
NoVector == [alive |-> FALSE, items_ |-> Null, size_ |-> 0, capacity_ |-> 0]

\* SimpleVector() noexcept = default
CtorDefault == [alive |-> TRUE, items_ |-> Null, size_ |-> 0, capacity_ |-> 0]

\* explicit SimpleVector(size_t size)
CtorSize(M, size) ==
    LET a == ArrayPtrSize(M, size)
    IN [M |-> StdFill(a.M, a.p, 0, size, DefaultValue),
        v |-> [alive |-> TRUE, items_ |-> a.p, size_ |-> size, capacity_ |-> size]]

\* SimpleVector(size_t size, const Type& value)
CtorSizeValue(M, size, value) ==
    LET a == ArrayPtrSize(M, size)
    IN [M |-> StdFill(a.M, a.p, 0, size, value),
        v |-> [alive |-> TRUE, items_ |-> a.p, size_ |-> size, capacity_ |-> size]]

\* SimpleVector(std::initializer_list<Type> init)
CtorInitList(M, init) ==
    LET a == ArrayPtrSize(M, Len(init))
    IN [M |-> StdCopyList(a.M, init, a.p, 0),
        v |-> [alive |-> TRUE, items_ |-> a.p, size_ |-> Len(init), capacity_ |-> Len(init)]]

\* SimpleVector(ReserveProxyObj reserved)
CtorReserved(M, capacity) ==
    LET a == ArrayPtrSize(M, capacity)
    IN [M |-> a.M,
        v |-> [alive |-> TRUE, items_ |-> a.p, size_ |-> 0, capacity_ |-> capacity]]

\* A copy that takes the source's pointer instead of copying the elements.
CtorCopyShallow(M, other) ==
    [M |-> M,
     v |-> [alive |-> TRUE, items_ |-> other.items_, size_ |-> other.size_,
            capacity_ |-> other.size_]]

\* SimpleVector(const SimpleVector& other)
CtorCopy(M, other) ==
    LET a == ArrayPtrSize(M, other.size_)
    IN [M |-> StdCopy(a.M, other.items_, 0, other.size_, a.p, 0),
        v |-> [alive |-> TRUE, items_ |-> a.p, size_ |-> other.size_,
               capacity_ |-> other.size_]]

\* A move constructor that takes the pointer and leaves the source its size
\* and capacity.
CtorMoveKeepsSize(other) ==
    [v |-> [alive |-> TRUE, items_ |-> other.items_, size_ |-> other.size_,
            capacity_ |-> other.capacity_],
     other |-> [other EXCEPT !.items_ = Null]]

\* A move constructor that copies the pointer: the source is left with size
\* 0 and capacity 0 and still points to the block.
CtorMoveKeepsPointer(other) ==
    [v |-> [alive |-> TRUE, items_ |-> other.items_, size_ |-> other.size_,
            capacity_ |-> other.capacity_],
     other |-> [other EXCEPT !.size_ = 0, !.capacity_ = 0]]

\* SimpleVector(SimpleVector&& other)
CtorMove(other) ==
    [v |-> [alive |-> TRUE, items_ |-> other.items_, size_ |-> other.size_,
            capacity_ |-> other.capacity_],
     other |-> [other EXCEPT !.items_ = Null, !.size_ = 0, !.capacity_ = 0]]

\* ~SimpleVector(): the member items_ is destroyed
Dtor(M, v) == ArrayPtrDtor(M, v.items_)

IsEmpty(v) == v.size_ = 0

IsFull(v) == v.size_ = v.capacity_

Max(a, b) == IF a >= b THEN a ELSE b

\* A growth policy that adds one slot instead of doubling.
NewCapacityPlusOne(v, new_size) == Max(v.capacity_ + 1, new_size)

\* size_t NewCapacity(const size_t new_size = 1)
NewCapacity(v, new_size) == Max(v.capacity_ * 2, new_size)

\* swap that exchanges size_ and capacity_ and leaves items_ where it is.
SwapSizesOnly(v, other) ==
    [v |-> [v EXCEPT !.size_ = other.size_, !.capacity_ = other.capacity_],
     other |-> [other EXCEPT !.size_ = v.size_, !.capacity_ = v.capacity_]]

\* void swap(SimpleVector& other) noexcept
Swap(v, other) ==
    [v |-> [v EXCEPT !.items_ = other.items_, !.size_ = other.size_,
                     !.capacity_ = other.capacity_],
     other |-> [other EXCEPT !.items_ = v.items_, !.size_ = v.size_,
                             !.capacity_ = v.capacity_]]

\* Growth that leaves the elements behind in the old block.
IncCapacityNoMove(M, v) ==
    LET b == CtorSize(M, NewCapacity(v, 1))
        buffer == [b.v EXCEPT !.size_ = v.size_]
        s == Swap(v, buffer)
    IN [M |-> Dtor(b.M, s.other), v |-> s.v]

\* void IncCapacity()
IncCapacity(M, v) ==
    LET b == CtorSize(M, NewCapacity(v, 1))              \* buffer(NewCapacity())
        buffer == [b.v EXCEPT !.size_ = v.size_]         \* buffer.size_ = size_
        M2 == StdCopy(b.M, v.items_, 0, v.size_, buffer.items_, 0)
        s == Swap(v, buffer)
    IN [M |-> Dtor(M2, s.other), v |-> s.v]              \* buffer goes out of scope

\* void PushBack(const Type& item) / void PushBack(Type&& item)
PushBack(M, v, item) ==
    LET g == IF IsFull(v) THEN IncCapacity(M, v) ELSE [M |-> M, v |-> v]
    IN [M |-> Store(g.M, g.v.items_, g.v.size_, item),
        v |-> [g.v EXCEPT !.size_ = @ + 1]]

\* Insert shifting front to back (std::copy), which overwrites the elements
\* it has yet to move.
InsertForward(M, v, offset, value) ==
    LET g == IF IsFull(v) THEN IncCapacity(M, v) ELSE [M |-> M, v |-> v]
        w == [g.v EXCEPT !.size_ = @ + 1]
        M2 == StdCopy(g.M, w.items_, offset, w.size_ - 1, w.items_, offset + 1)
    IN [M |-> Store(M2, w.items_, offset, value), v |-> w,
        it |-> [blk |-> w.items_, off |-> offset]]

\* Iterator Insert(ConstIterator pos, const Type& value) / (ConstIterator, Type&&)
\* pos is begin() + offset; the result is the iterator returned.
Insert(M, v, offset, value) ==
    LET g == IF IsFull(v) THEN IncCapacity(M, v) ELSE [M |-> M, v |-> v]
        w == [g.v EXCEPT !.size_ = @ + 1]                \* ++size_
        M2 == StdCopyBackward(g.M, w.items_, offset, w.size_ - 1, w.items_, w.size_)
    IN [M |-> Store(M2, w.items_, offset, value), v |-> w,
        it |-> [blk |-> w.items_, off |-> offset]]

\* PopBack without its emptiness test.
PopBackUnchecked(v) == [v EXCEPT !.size_ = @ - 1]

\* void PopBack() noexcept
PopBack(v) == IF ~IsEmpty(v) THEN [v EXCEPT !.size_ = @ - 1] ELSE v

\* Erase shifting back to front (std::move_backward), which overwrites the
\* elements it has yet to move.
EraseBackward(M, v, offset) ==
    [M |-> StdCopyBackward(M, v.items_, offset + 1, v.size_, v.items_, v.size_ - 1),
     v |-> [v EXCEPT !.size_ = @ - 1],
     it |-> [blk |-> v.items_, off |-> offset]]

\* Iterator Erase(ConstIterator pos), pos = begin() + offset
Erase(M, v, offset) ==
    [M |-> StdCopy(M, v.items_, offset + 1, v.size_, v.items_, offset),
     v |-> [v EXCEPT !.size_ = @ - 1],
     it |-> [blk |-> v.items_, off |-> offset]]

\* void Clear() noexcept
Clear(v) == [v EXCEPT !.size_ = 0]

\* Resize that exposes the dead slots below the capacity as they are.
ResizeNoFill(M, v, new_size) ==
    IF new_size > v.capacity_ THEN
        LET b == CtorSize(M, NewCapacity(v, new_size))
            M2 == StdCopy(b.M, v.items_, 0, v.size_, b.v.items_, 0)
            s == Swap(v, b.v)
        IN [M |-> Dtor(M2, s.other), v |-> [s.v EXCEPT !.size_ = new_size]]
    ELSE [M |-> M, v |-> [v EXCEPT !.size_ = new_size]]

\* void Resize(size_t new_size)
Resize(M, v, new_size) ==
    IF new_size > v.capacity_ THEN
        LET b == CtorSize(M, NewCapacity(v, new_size))   \* buffer(new_capacity)
            M2 == StdCopy(b.M, v.items_, 0, v.size_, b.v.items_, 0)
            s == Swap(v, b.v)
        IN [M |-> Dtor(M2, s.other), v |-> [s.v EXCEPT !.size_ = new_size]]
    ELSE IF new_size > v.size_ THEN
        [M |-> StdFill(M, v.items_, v.size_, new_size, DefaultValue),
         v |-> [v EXCEPT !.size_ = new_size]]
    ELSE [M |-> M, v |-> [v EXCEPT !.size_ = new_size]]

\* Reserve that keeps the capacity its Resize chose.
ReserveKeepsResizeCapacity(M, v, new_capacity) ==
    IF new_capacity > v.capacity_ THEN
        LET size_save == v.size_
            r == Resize(M, v, new_capacity)
        IN [M |-> r.M, v |-> [r.v EXCEPT !.size_ = size_save]]
    ELSE [M |-> M, v |-> v]

\* Reserve without its test: capacity_ is set whatever it was.
ReserveUnguarded(M, v, new_capacity) ==
    [M |-> M, v |-> [v EXCEPT !.capacity_ = new_capacity]]

\* void Reserve(size_t new_capacity)
Reserve(M, v, new_capacity) ==
    IF new_capacity > v.capacity_ THEN
        LET size_save == v.size_
            r == Resize(M, v, new_capacity)
        IN [M |-> r.M,
            v |-> [r.v EXCEPT !.size_ = size_save, !.capacity_ = new_capacity]]
    ELSE [M |-> M, v |-> v]

\* At testing the index against the capacity.
AtThrowsBeyondCapacity(v, index) == index >= v.capacity_

\* Type& At(size_t index): throws std::out_of_range or returns items_[index]
AtThrows(v, index) == index >= v.size_

\* Copy-assignment from an empty source that drops the storage but not the
\* elements: Clear() is left out.
CopyAssignNoClear(M, v, other) ==
    IF IsEmpty(other) THEN
        LET a == ArrayPtrMoveAssign(M, v.items_, Null)
        IN [M |-> a.M, v |-> [v EXCEPT !.capacity_ = 0, !.items_ = a.p]]
    ELSE
        LET c == CtorCopy(M, other)
            s == Swap(v, c.v)
        IN [M |-> Dtor(c.M, s.other), v |-> s.v]

\* Copy-assignment from an empty source that clears the elements and keeps
\* the storage.
CopyAssignKeepsStorage(M, v, other) ==
    IF IsEmpty(other) THEN [M |-> M, v |-> Clear(v)]
    ELSE
        LET c == CtorCopy(M, other)
            s == Swap(v, c.v)
        IN [M |-> Dtor(c.M, s.other), v |-> s.v]

\* SimpleVector& operator=(const SimpleVector& other), &other != this
CopyAssign(M, v, other) ==
    IF IsEmpty(other) THEN
        LET c == Clear(v)
            a == ArrayPtrMoveAssign(M, c.items_, Null)   \* items_ = ArrayPtr<Type>()
        IN [M |-> a.M, v |-> [c EXCEPT !.capacity_ = 0, !.items_ = a.p]]
    ELSE
        LET c == CtorCopy(M, other)                      \* other_copy(other)
            s == Swap(v, c.v)
        IN [M |-> Dtor(c.M, s.other), v |-> s.v]

\* Move-assignment that takes the state of the source and leaves it empty.
MoveAssignSteals(v, other) ==
    [v |-> [v EXCEPT !.items_ = other.items_, !.size_ = other.size_,
                     !.capacity_ = other.capacity_],
     other |-> [other EXCEPT !.items_ = Null, !.size_ = 0, !.capacity_ = 0]]

\* SimpleVector& operator=(SimpleVector&& other), this != &other
MoveAssign(v, other) == Swap(v, other)

\* ----------------------------------------------------------- comparison
\* Three-way comparison that takes the shorter range for the smaller before
\* it looks at the elements.
LexCompareSizeFirst(M, lp, i, ln, rp, j, rn) ==
    LET RECURSIVE Walk(_)
        Walk(k) ==
            IF k = ln THEN "equal"
            ELSE IF Load(M, lp, k) < Load(M, rp, k) THEN "less"
            ELSE IF Load(M, lp, k) > Load(M, rp, k) THEN "greater"
            ELSE Walk(k + 1)
    IN IF ln < rn THEN "less" ELSE IF ln > rn THEN "greater" ELSE Walk(0)

\* std::lexicographical_compare_three_way(first1, last1, first2, last2) on
\* the ranges [lp + i, lp + ln) and [rp + j, rp + rn)
RECURSIVE LexCompare(_, _, _, _, _, _, _)
LexCompare(M, lp, i, ln, rp, j, rn) ==
    IF i = ln THEN (IF j = rn THEN "equal" ELSE "less")
    ELSE IF j = rn THEN "greater"
    ELSE IF Load(M, lp, i) < Load(M, rp, j) THEN "less"
    ELSE IF Load(M, lp, i) > Load(M, rp, j) THEN "greater"
    ELSE LexCompare(M, lp, i + 1, ln, rp, j + 1, rn)

\* A comparison that takes the ranges up to the capacity: begin() to
\* begin() + capacity_.
ThreeWayUpToCapacity(M, lhs, rhs) ==
    LexCompare(M, lhs.items_, 0, lhs.capacity_, rhs.items_, 0, rhs.capacity_)

\* operator<=>(lhs, rhs): the ranges are [cbegin(), cend())
ThreeWay(M, lhs, rhs) ==
    LexCompare(M, lhs.items_, 0, lhs.size_, rhs.items_, 0, rhs.size_)

\* operator==, !=, <, <=, >, >=
OpEq(M, lhs, rhs) == ThreeWay(M, lhs, rhs) = "equal"

OpNe(M, lhs, rhs) == ThreeWay(M, lhs, rhs) # "equal"

OpLt(M, lhs, rhs) == ThreeWay(M, lhs, rhs) = "less"

OpLe(M, lhs, rhs) == ThreeWay(M, lhs, rhs) # "greater"

OpGt(M, lhs, rhs) == ThreeWay(M, lhs, rhs) = "greater"

OpGe(M, lhs, rhs) == ThreeWay(M, lhs, rhs) # "less"

\* ------------------------------------------------------------ the state
Mem == [mem |-> heap, faults |-> faults]

\* The slots of the blocks that the objects other than t own.
OtherSlots(t) ==
    LET RECURSIVE Sum(_)
        Sum(S) == IF S = {} THEN 0
                  ELSE LET u == CHOOSE x \in S : TRUE
                       IN Len(heap[vecs[u].items_].data) + Sum(S \ {u})
    IN Sum({u \in VecId \ {t} : vecs[u].items_ # Null})

\* The calls whose new T[n] would throw std::bad_alloc are not made: the heap
\* has room for MaxLen slots in the blocks the objects own (the block of a
\* temporary, which lives within one call, does not count).  n is the length
\* of the block that object t owns after the call.
Fits(t, n) == OtherSlots(t) + n <= MaxLen

\* What a caller can observe of a vector: GetSize(), GetCapacity() and the
\* elements [begin(), end()).
Elems(M, v) == [i \in 1..v.size_ |-> Load(M, v.items_, i - 1)]

Abs(M, v) == [size |-> v.size_, capacity |-> v.capacity_, elems |-> Elems(M, v)]

NoAbs == [size |-> 0, capacity |-> 0, elems |-> <<>>]

\* Some dead slot among [size, new_size) holds something else than Type{}:
\* a value left behind by PopBack, Erase, Clear or Resize, or nothing yet.
Dirty(M, v, new_size) ==
    \E i \in v.size_..(new_size - 1) :
        ValidSlot(M, v.items_, i) /\ Load(M, v.items_, i) # DefaultValue

NoIt == [blk |-> Null, off |-> 0]

\* The record of a call: op with index or size argument idx and value
\* argument val; branch names the path taken through the code; err is the
\* exception thrown, ret the value and it the iterator returned; pre is what
\* the object looked like before the call.  undo is set when the call takes
\* back the call before it (Erase at the position of the Insert before it,
\* PopBack after PushBack); pre2 is then the object before that call.  dirty
\* is set when Resize uncovered a dead slot that held something else than
\* Type{}.
Call(op, idx, val, branch, err, ret, it, pre) ==
    [op |-> op, idx |-> idx, val |-> val, branch |-> branch, err |-> err,
     ret |-> ret, it |-> it, pre |-> pre, undo |-> FALSE, pre2 |-> NoAbs,
     dirty |-> FALSE]

Undoing(call, op, idx) ==
    IF last.op = op /\ last.idx = idx
    THEN [call EXCEPT !.undo = TRUE, !.pre2 = last.pre]
    ELSE call

NoCall == Call("none", 0, 0, "", "", 0, NoIt, NoAbs)

\* An ArrayPtr object: alive between construction and destruction.
NoPtr == [alive |-> FALSE, ptr_ |-> Null]

\* Sequences of values of length at most n
SeqsUpTo(n) == UNION {[1..k -> Val] : k \in 0..n}

Init ==
    /\ heap = [a \in Addr |-> [live |-> FALSE, data |-> <<>>]]
    /\ faults = {}
    /\ vecs = [t \in VecId |-> NoVector]
    /\ last = NoCall
    /\ ptrs = [p \in PtrId |-> NoPtr]
    /\ released = {}

\* The effect of a call on object t that leaves the other objects alone.
Update(t, r) ==
    /\ heap' = r.M.mem
    /\ faults' = r.M.faults
    /\ vecs' = [vecs EXCEPT ![t] = r.v]
    /\ UNCHANGED <<ptrs, released>>

\* --------------------------------------------------------- constructors
ConstructDefault(t) ==
    /\ ~vecs[t].alive
    /\ Update(t, [M |-> Mem, v |-> CtorDefault])

ConstructSize(t, size) ==
    /\ ~vecs[t].alive
    /\ Fits(t, size)
    /\ Update(t, CtorSize(Mem, size))

ConstructSizeValue(t, size, value) ==
    /\ ~vecs[t].alive
    /\ Fits(t, size)
    /\ Update(t, CtorSizeValue(Mem, size, value))

ConstructInitList(t, init) ==
    /\ ~vecs[t].alive
    /\ Fits(t, Len(init))
    /\ Update(t, CtorInitList(Mem, init))

ConstructReserved(t, capacity) ==
    /\ ~vecs[t].alive
    /\ Fits(t, capacity)
    /\ Update(t, CtorReserved(Mem, capacity))

ConstructCopy(t, o) ==
    /\ ~vecs[t].alive
    /\ vecs[o].alive
    /\ Fits(t, vecs[o].size_)
    /\ Update(t, CtorCopy(Mem, vecs[o]))

ConstructMove(t, o) ==
    /\ ~vecs[t].alive
    /\ vecs[o].alive
    /\ LET r == CtorMove(vecs[o])
       IN vecs' = [vecs EXCEPT ![t] = r.v, ![o] = r.other]
    /\ UNCHANGED <<heap, faults, ptrs, released>>

Destroy(t) ==
    /\ vecs[t].alive
    /\ Update(t, [M |-> Dtor(Mem, vecs[t]), v |-> NoVector])

\* ----------------------------------------------------------- assignment
\* a = b; a = a takes neither branch of the code
CallCopyAssign(t, o) ==
    /\ vecs[t].alive
    /\ vecs[o].alive
    /\ IF o = t THEN UNCHANGED <<heap, faults, vecs, ptrs, released>>
       ELSE /\ ~IsEmpty(vecs[o]) => Fits(t, vecs[o].size_)
            /\ Update(t, CopyAssign(Mem, vecs[t], vecs[o]))

\* a = std::move(b)
CallMoveAssign(t, o) ==
    /\ vecs[t].alive
    /\ vecs[o].alive
    /\ IF o = t THEN UNCHANGED vecs
       ELSE LET r == MoveAssign(vecs[t], vecs[o])
            IN vecs' = [vecs EXCEPT ![t] = r.v, ![o] = r.other]
    /\ UNCHANGED <<heap, faults, ptrs, released>>

\* a.swap(b); a.swap(a) exchanges every field with itself
CallSwap(t, o) ==
    /\ vecs[t].alive
    /\ vecs[o].alive
    /\ LET r == Swap(vecs[t], vecs[o])
       IN vecs' = IF o = t THEN [vecs EXCEPT ![t] = r.v]
                  ELSE [vecs EXCEPT ![t] = r.v, ![o] = r.other]
    /\ UNCHANGED <<heap, faults, ptrs, released>>

\* ------------------------------------------------------------ modifiers
CallPushBack(t, item) ==
    /\ vecs[t].alive
    /\ IsFull(vecs[t]) => Fits(t, NewCapacity(vecs[t], 1))
    /\ Update(t, PushBack(Mem, vecs[t], item))

\* Precondition (asserted): begin() <= pos <= end()
CallInsert(t, offset, value) ==
    /\ vecs[t].alive
    /\ offset <= vecs[t].size_
    /\ IsFull(vecs[t]) => Fits(t, NewCapacity(vecs[t], 1))
    /\ Update(t, Insert(Mem, vecs[t], offset, value))

CallPopBack(t) ==
    /\ vecs[t].alive
    /\ Update(t, [M |-> Mem, v |-> PopBack(vecs[t])])

\* Precondition (asserted): begin() <= pos < end()
CallErase(t, offset) ==
    /\ vecs[t].alive
    /\ offset < vecs[t].size_
    /\ Update(t, Erase(Mem, vecs[t], offset))

CallClear(t) ==
    /\ vecs[t].alive
    /\ Update(t, [M |-> Mem, v |-> Clear(vecs[t])])

CallResize(t, new_size) ==
    /\ vecs[t].alive
    /\ new_size > vecs[t].capacity_ => Fits(t, NewCapacity(vecs[t], new_size))
    /\ Update(t, Resize(Mem, vecs[t], new_size))

CallReserve(t, new_capacity) ==
    /\ vecs[t].alive
    /\ new_capacity > vecs[t].capacity_ => Fits(t, NewCapacity(vecs[t], new_capacity))
    /\ Update(t, Reserve(Mem, vecs[t], new_capacity))

\* --------------------------------------------------------------- access
\* Type& At(size_t index): nothing is written
CallAt(t, index) ==
    /\ vecs[t].alive
    /\ UNCHANGED <<heap, faults, vecs, ptrs, released>>

\* The value At returns: the slot's, and any value for a slot nobody wrote.
AtReturns(M, v, index) ==
    LET x == Load(M, v.items_, index) IN IF x = Uninit THEN Val ELSE {x}

\* ------------------------------------------------ the program: two objects
\* Any calls on two SimpleVector objects, in any order.  No call is logged.
Next ==
    \E t \in VecId :
        \/ ConstructDefault(t) /\ UNCHANGED last
        \/ \E size \in 0..MaxLen : ConstructSize(t, size) /\ UNCHANGED last
        \/ \E size \in 0..MaxLen, value \in Val :
              ConstructSizeValue(t, size, value) /\ UNCHANGED last
        \/ \E init \in SeqsUpTo(MaxLen) : ConstructInitList(t, init) /\ UNCHANGED last
        \/ \E capacity \in 0..MaxLen : ConstructReserved(t, capacity) /\ UNCHANGED last
        \/ \E o \in VecId : ConstructCopy(t, o) /\ UNCHANGED last
        \/ \E o \in VecId : ConstructMove(t, o) /\ UNCHANGED last
        \/ Destroy(t) /\ UNCHANGED last
        \/ \E o \in VecId : CallCopyAssign(t, o) /\ UNCHANGED last
        \/ \E o \in VecId : CallMoveAssign(t, o) /\ UNCHANGED last
        \/ \E o \in VecId : CallSwap(t, o) /\ UNCHANGED last
        \/ \E item \in Val : CallPushBack(t, item) /\ UNCHANGED last
        \/ \E offset \in 0..MaxLen, value \in Val :
              CallInsert(t, offset, value) /\ UNCHANGED last
        \/ CallPopBack(t) /\ UNCHANGED last
        \/ \E offset \in 0..MaxLen : CallErase(t, offset) /\ UNCHANGED last
        \/ CallClear(t) /\ UNCHANGED last
        \/ \E new_size \in 0..MaxLen : CallResize(t, new_size) /\ UNCHANGED last
        \/ \E new_capacity \in 0..MaxLen : CallReserve(t, new_capacity) /\ UNCHANGED last

Spec == Init /\ [][Next]_vars

\* ------------------------------------------- one object, every call logged
\* The calls on one SimpleVector object, each leaving its record in last.
Subject == CHOOSE t \in VecId : \A u \in VecId : t <= u

Before == Abs(Mem, vecs[Subject])

LogConstructDefault ==
    /\ ConstructDefault(Subject)
    /\ last' = Call("SimpleVector()", 0, 0, "", "", 0, NoIt, NoAbs)

LogConstructSize(size) ==
    /\ ConstructSize(Subject, size)
    /\ last' = Call("SimpleVector(size)", size, 0, "", "", 0, NoIt, NoAbs)

LogConstructSizeValue(size, value) ==
    /\ ConstructSizeValue(Subject, size, value)
    /\ last' = Call("SimpleVector(size,value)", size, value, "", "", 0, NoIt, NoAbs)

LogConstructInitList(init) ==
    /\ ConstructInitList(Subject, init)
    /\ last' = Call("SimpleVector(init)", Len(init), 0, "", "", 0, NoIt, NoAbs)

LogConstructReserved(capacity) ==
    /\ ConstructReserved(Subject, capacity)
    /\ last' = Call("SimpleVector(Reserve)", capacity, 0, "", "", 0, NoIt, NoAbs)

LogDestroy ==
    /\ Destroy(Subject)
    /\ last' = Call("~SimpleVector", 0, 0, "", "", 0, NoIt, Before)

LogPushBack(item) ==
    /\ CallPushBack(Subject, item)
    /\ last' = Call("PushBack", 0, item, IF IsFull(vecs[Subject]) THEN "grow" ELSE "fit",
                    "", 0, NoIt, Before)

LogInsert(offset, value) ==
    /\ CallInsert(Subject, offset, value)
    /\ last' = Call("Insert", offset, value, IF IsFull(vecs[Subject]) THEN "grow" ELSE "fit",
                    "", 0, Insert(Mem, vecs[Subject], offset, value).it, Before)

LogPopBack ==
    /\ CallPopBack(Subject)
    /\ last' = Undoing(Call("PopBack", 0, 0,
                                 IF IsEmpty(vecs[Subject]) THEN "empty" ELSE "pop",
                                 "", 0, NoIt, Before),
                            "PushBack", 0)

LogErase(offset) ==
    /\ CallErase(Subject, offset)
    /\ last' = Undoing(Call("Erase", offset, 0, "", "", 0,
                                 Erase(Mem, vecs[Subject], offset).it, Before),
                            "Insert", offset)

LogClear ==
    /\ CallClear(Subject)
    /\ last' = Call("Clear", 0, 0, "", "", 0, NoIt, Before)

LogResize(new_size) ==
    /\ CallResize(Subject, new_size)
    /\ last' = [Call("Resize", new_size, 0,
                     IF new_size > vecs[Subject].capacity_ THEN "realloc"
                     ELSE IF new_size > vecs[Subject].size_ THEN "fill" ELSE "shrink",
                     "", 0, NoIt, Before)
                EXCEPT !.dirty = Dirty(Mem, vecs[Subject], new_size)]

LogReserve(new_capacity) ==
    /\ CallReserve(Subject, new_capacity)
    /\ last' = Call("Reserve", new_capacity, 0,
                    IF new_capacity > vecs[Subject].capacity_ THEN "grow" ELSE "noop",
                    "", 0, NoIt, Before)

LogAt(index) ==
    /\ CallAt(Subject, index)
    /\ IF AtThrows(vecs[Subject], index)
       THEN last' = Call("At", index, 0, "throw", "out_of_range", 0, NoIt, Before)
       ELSE \E ret \in AtReturns(Mem, vecs[Subject], index) :
                last' = Call("At", index, 0, "ok", "", ret, NoIt, Before)

NextCalls ==
    \/ LogConstructDefault
    \/ \E size \in 0..MaxLen : LogConstructSize(size)
    \/ \E size \in 0..MaxLen, value \in Val : LogConstructSizeValue(size, value)
    \/ \E init \in SeqsUpTo(MaxLen) : LogConstructInitList(init)
    \/ \E capacity \in 0..MaxLen : LogConstructReserved(capacity)
    \/ LogDestroy
    \/ \E item \in Val : LogPushBack(item)
    \/ \E offset \in 0..MaxLen, value \in Val : LogInsert(offset, value)
    \/ LogPopBack
    \/ \E offset \in 0..MaxLen : LogErase(offset)
    \/ LogClear
    \/ \E new_size \in 0..MaxLen : LogResize(new_size)
    \/ \E new_capacity \in 0..MaxLen : LogReserve(new_capacity)
    \/ \E index \in 0..MaxLen : LogAt(index)

SpecCalls == Init /\ [][NextCalls]_vars

\* --------------------------------------- two objects, the pair calls logged
\* Type& operator[](size_t index) used to write: v[index] = value.
\* Precondition (asserted): index < size_
CallWrite(t, index, value) ==
    /\ vecs[t].alive
    /\ index < vecs[t].size_
    /\ Update(t, [M |-> Store(Mem, vecs[t].items_, index, value), v |-> vecs[t]])

\* What a caller can observe of object t.
AbsOf(t) == Abs(Mem, vecs[t])

\* The record of a call that has two operands: self is the object the call is
\* made on (or constructs), other the object it takes, pre what self looked
\* like before the call.
PairCall(op, t, o) == [op |-> op, self |-> t, other |-> o, pre |-> AbsOf(t)]

\* The record left by a = b and a = std::move(b); a call with itself as the
\* operand leaves none.
PairCallUnlessSelf(op, t, o) == IF o = t THEN NoCall ELSE PairCall(op, t, o)

\* The call recorded is op, made on object t and taking object o.
IsPairCall(call, op, t, o) == call.op = op /\ call.self = t /\ call.other = o

\* The heap of this specification has room for PairLen slots.
PairLen == MaxLen - 1

OwnedSlots ==
    LET RECURSIVE Sum(_)
        Sum(S) == IF S = {} THEN 0
                  ELSE LET u == CHOOSE x \in S : TRUE
                       IN Len(heap[vecs[u].items_].data) + Sum(S \ {u})
    IN Sum({u \in VecId : vecs[u].items_ # Null})

PairRoom == OwnedSlots <= PairLen

\* Any calls on two SimpleVector objects, in any order.  The constructors and
\* assignments that take another vector leave their record in last; every
\* other call clears it.  The two objects being alike, it is the first that
\* is constructed from or assigned the other (and assigned itself).
NextPairs ==
    \/ \E t \in VecId :
        \/ ConstructDefault(t) /\ last' = NoCall /\ PairRoom'
        \/ \E init \in SeqsUpTo(PairLen - OwnedSlots) :
              ConstructInitList(t, init) /\ last' = NoCall /\ PairRoom'
        \/ \E capacity \in 0..(PairLen - OwnedSlots) :
              ConstructReserved(t, capacity) /\ last' = NoCall /\ PairRoom'
        \/ Destroy(t) /\ last' = NoCall /\ PairRoom'
        \/ \E o \in VecId : CallSwap(t, o) /\ last' = NoCall /\ PairRoom'
        \/ \E index \in 0..PairLen, value \in Val :
              CallWrite(t, index, value) /\ last' = NoCall /\ PairRoom'
        \/ \E item \in Val : CallPushBack(t, item) /\ last' = NoCall /\ PairRoom'
        \/ \E offset \in 0..PairLen, value \in Val :
              CallInsert(t, offset, value) /\ last' = NoCall /\ PairRoom'
        \/ CallPopBack(t) /\ last' = NoCall /\ PairRoom'
        \/ \E offset \in 0..PairLen : CallErase(t, offset) /\ last' = NoCall /\ PairRoom'
        \/ CallClear(t) /\ last' = NoCall /\ PairRoom'
        \/ \E new_size \in 0..PairLen : CallResize(t, new_size) /\ last' = NoCall /\ PairRoom'
        \/ \E new_capacity \in 0..PairLen :
              CallReserve(t, new_capacity) /\ last' = NoCall /\ PairRoom'
    \/ \E o \in VecId :
        \/ /\ ConstructCopy(Subject, o)
           /\ last' = PairCall("ConstructCopy", Subject, o) /\ PairRoom'
        \/ /\ ConstructMove(Subject, o)
           /\ last' = PairCall("ConstructMove", Subject, o) /\ PairRoom'
        \/ /\ CallCopyAssign(Subject, o)
           /\ last' = PairCallUnlessSelf("CopyAssign", Subject, o) /\ PairRoom'
        \/ /\ CallMoveAssign(Subject, o)
           /\ last' = PairCallUnlessSelf("MoveAssign", Subject, o) /\ PairRoom'

SpecPairs == Init /\ [][NextPairs]_vars

\* ------------------------------------- ArrayPtr objects and vectors at once
\* The effect of a call on ArrayPtr object p that leaves the vectors alone.
UpdatePtr(M, f, rel) ==
    /\ heap' = M.mem
    /\ faults' = M.faults
    /\ ptrs' = f
    /\ released' = rel
    /\ UNCHANGED <<vecs, last>>

\* ArrayPtr() = default
PtrConstructDefault(p) ==
    /\ ~ptrs[p].alive
    /\ UpdatePtr(Mem, [ptrs EXCEPT ![p] = [alive |-> TRUE, ptr_ |-> Null]], released)

\* ArrayPtr(T* raw_ptr): the caller passes nullptr or a pointer it holds, which
\* the object then owns
PtrConstructRaw(p, raw_ptr) ==
    /\ ~ptrs[p].alive
    /\ raw_ptr \in released \cup {Null}
    /\ UpdatePtr(Mem, [ptrs EXCEPT ![p] = [alive |-> TRUE, ptr_ |-> ArrayPtrRaw(raw_ptr)]],
                 released \ {raw_ptr})

\* ArrayPtr(size_t size)
PtrConstructSize(p, size) ==
    /\ ~ptrs[p].alive
    /\ LET a == ArrayPtrSize(Mem, size)
       IN UpdatePtr(a.M, [ptrs EXCEPT ![p] = [alive |-> TRUE, ptr_ |-> a.p]], released)

\* ArrayPtr(ArrayPtr&& other)
PtrConstructMove(p, q) ==
    /\ ~ptrs[p].alive
    /\ ptrs[q].alive
    /\ LET r == ArrayPtrMoveCtor(ptrs[q].ptr_)
       IN UpdatePtr(Mem, [ptrs EXCEPT ![p] = [alive |-> TRUE, ptr_ |-> r.p],
                                      ![q].ptr_ = r.other], released)

\* ~ArrayPtr()
PtrDestroy(p) ==
    /\ ptrs[p].alive
    /\ UpdatePtr(ArrayPtrDtor(Mem, ptrs[p].ptr_), [ptrs EXCEPT ![p] = NoPtr], released)

\* p = std::move(q); p = std::move(p) does nothing
PtrMoveAssign(p, q) ==
    /\ ptrs[p].alive
    /\ ptrs[q].alive
    /\ IF q = p THEN UpdatePtr(Mem, ptrs, released)
       ELSE LET r == ArrayPtrMoveAssign(Mem, ptrs[p].ptr_, ptrs[q].ptr_)
            IN UpdatePtr(r.M, [ptrs EXCEPT ![p].ptr_ = r.p, ![q].ptr_ = r.other], released)

\* p.Release(): the caller holds the pointer returned
PtrRelease(p) ==
    /\ ptrs[p].alive
    /\ LET r == ArrayPtrRelease(ptrs[p].ptr_)
       IN UpdatePtr(Mem, [ptrs EXCEPT ![p].ptr_ = r.p], released \cup ({r.ret} \ {Null}))

\* p.swap(q)
PtrSwap(p, q) ==
    /\ ptrs[p].alive
    /\ ptrs[q].alive
    /\ LET r == ArrayPtrSwap(ptrs[p].ptr_, ptrs[q].ptr_)
       IN UpdatePtr(Mem, IF q = p THEN [ptrs EXCEPT ![p].ptr_ = r.p]
                         ELSE [ptrs EXCEPT ![p].ptr_ = r.p, ![q].ptr_ = r.other], released)

\* The slots of all the blocks in use.
LiveSlots ==
    LET RECURSIVE Sum(_)
        Sum(S) == IF S = {} THEN 0
                  ELSE LET a == CHOOSE x \in S : TRUE
                       IN Len(heap[a].data) + Sum(S \ {a})
    IN Sum({a \in Addr : heap[a].live})

\* The heap of this specification has room for PairLen slots.
OwnRoom == LiveSlots <= PairLen

\* Any calls on two ArrayPtr objects and, in between, the calls on two
\* SimpleVector objects that allocate, free or hand over storage.  The values
\* stored play no part in that: the vectors hold Type{} throughout.
NextOwn ==
    \/ \E p \in PtrId :
        \/ PtrConstructDefault(p)
        \/ \E raw_ptr \in Addr \cup {Null} : PtrConstructRaw(p, raw_ptr)
        \/ \E size \in 0..MaxLen : PtrConstructSize(p, size) /\ OwnRoom'
        \/ \E q \in PtrId : PtrConstructMove(p, q)
        \/ PtrDestroy(p)
        \/ \E q \in PtrId : PtrMoveAssign(p, q)
        \/ PtrRelease(p)
        \/ \E q \in PtrId : PtrSwap(p, q)
    \/ \E t \in VecId :
        \/ ConstructDefault(t) /\ UNCHANGED last
        \/ \E size \in 0..MaxLen : ConstructSize(t, size) /\ UNCHANGED last /\ OwnRoom'
        \/ \E capacity \in 0..MaxLen :
              ConstructReserved(t, capacity) /\ UNCHANGED last /\ OwnRoom'
        \/ \E o \in VecId : ConstructCopy(t, o) /\ UNCHANGED last /\ OwnRoom'
        \/ \E o \in VecId : ConstructMove(t, o) /\ UNCHANGED last
        \/ Destroy(t) /\ UNCHANGED last
        \/ \E o \in VecId : CallCopyAssign(t, o) /\ UNCHANGED last /\ OwnRoom'
        \/ \E o \in VecId : CallMoveAssign(t, o) /\ UNCHANGED last
        \/ \E o \in VecId : CallSwap(t, o) /\ UNCHANGED last
        \/ CallPushBack(t, DefaultValue) /\ UNCHANGED last /\ OwnRoom'
        \/ \E new_size \in 0..MaxLen : CallResize(t, new_size) /\ UNCHANGED last /\ OwnRoom'
        \/ \E new_capacity \in 0..MaxLen :
              CallReserve(t, new_capacity) /\ UNCHANGED last /\ OwnRoom'

SpecOwn == Init /\ [][NextOwn]_vars

\* ================================================================ claims
Now == Abs(Mem, vecs[Subject])

Pre == last.pre

\* C1: in every state reachable by any calls on two objects (constructors,
\* PushBack, Insert, PopBack, Erase, Clear, Resize, Reserve, swap, copy- and
\* move-assignment), every live SimpleVector has 0 <= size <= capacity.
C1_SizeWithinCapacity ==
    \A t \in VecId :
        vecs[t].alive => 0 <= vecs[t].size_ /\ vecs[t].size_ <= vecs[t].capacity_

\* Two live objects, one full and one with dead slots behind its elements.
C1_Witness ==
    \E t, o \in VecId :
        /\ t # o /\ vecs[t].alive /\ vecs[o].alive
        /\ 0 < vecs[t].size_ /\ vecs[t].size_ < vecs[t].capacity_
        /\ 0 < vecs[o].size_ /\ vecs[o].size_ = vecs[o].capacity_

C3_CapacityNeverShrinks ==
    last.op \in {"PushBack", "Insert", "PopBack", "Erase", "Clear", "Resize", "Reserve"}
        => Now.capacity >= Pre.capacity

\* Reserve asked for less than the capacity of a vector that has storage.
C3_Witness ==
    /\ last.op = "Reserve" /\ last.idx < Pre.capacity
    /\ Now.capacity = Pre.capacity /\ Pre.size > 0

C5_Erase ==
    last.op = "Erase" =>
        LET p == last.idx
        IN /\ Now.elems = SubSeq(Pre.elems, 1, p) \o SubSeq(Pre.elems, p + 2, Pre.size)
           /\ Now.size = Pre.size - 1
           /\ Now.capacity = Pre.capacity
           /\ last.it = [blk |-> vecs[Subject].items_, off |-> p]
           /\ p < Pre.size - 1 => Load(Mem, last.it.blk, last.it.off) = Pre.elems[p + 2]
           /\ p = Pre.size - 1 => last.it.off = Now.size

\* Erase of an element that has two elements behind it.
C5_Witness ==
    /\ last.op = "Erase" /\ last.idx + 2 < Pre.size
    /\ Pre.elems[last.idx + 2] # Pre.elems[last.idx + 3]

\* C6: Insert at offset p in [0, size] followed by Erase at offset p restores
\* the size and the element sequence the vector had before the Insert.
C6_InsertEraseRoundTrip ==
    (last.op = "Erase" /\ last.undo) =>
        /\ Now.size = last.pre2.size
        /\ Now.elems = last.pre2.elems

\* The round trip in the middle of a full vector: the Insert reallocated.
C6_Witness ==
    /\ last.op = "Erase" /\ last.undo
    /\ 0 < last.idx /\ last.idx < last.pre2.size
    /\ last.pre2.size = last.pre2.capacity
    /\ Now.capacity # last.pre2.capacity

\* C7: PushBack followed by PopBack restores the size and the element
\* sequence; PopBack on an empty vector changes nothing: the size stays 0 and
\* the capacity is the same.
C7_PushPopRoundTrip ==
    /\ (last.op = "PopBack" /\ last.undo) =>
            /\ Now.size = last.pre2.size
            /\ Now.elems = last.pre2.elems
    /\ (last.op = "PopBack" /\ Pre.size = 0) =>
            /\ Now.size = 0
            /\ Now.capacity = Pre.capacity
            /\ Now = Pre

\* PushBack on a full vector with elements, then PopBack.
C7_Witness ==
    /\ last.op = "PopBack" /\ last.undo
    /\ last.pre2.size > 0 /\ last.pre2.size = last.pre2.capacity
    /\ Now.capacity = 2 * last.pre2.capacity

\* PopBack on an empty vector that has storage.
C7_WitnessEmpty ==
    last.op = "PopBack" /\ last.branch = "empty" /\ Pre.capacity > 0

\* C8: Resize(n) ends with size n.  For n <= size the first n elements and
\* the capacity are unchanged.  For n > size the old elements are unchanged
\* and the elements [size, n) are Type{}, whatever the dead slots held.  For
\* n > capacity the capacity becomes max(2 * capacity, n), else it is unchanged.
C8_Resize ==
    last.op = "Resize" =>
        LET n == last.idx
        IN /\ Now.size = n
           /\ n <= Pre.size =>
                /\ Now.elems = SubSeq(Pre.elems, 1, n)
                /\ Now.capacity = Pre.capacity
           /\ n > Pre.size =>
                /\ SubSeq(Now.elems, 1, Pre.size) = Pre.elems
                /\ \A i \in (Pre.size + 1)..n : Now.elems[i] = DefaultValue
           /\ n > Pre.capacity => Now.capacity = Max(2 * Pre.capacity, n)
           /\ n <= Pre.capacity => Now.capacity = Pre.capacity

\* Resize up within the capacity, over a dead slot that held another value
\* than Type{}.
C8_Witness ==
    /\ last.op = "Resize" /\ last.branch = "fill" /\ last.dirty
    /\ Pre.size > 0 /\ last.idx = Pre.size + 2

\* C9: Reserve(n) with n <= capacity changes nothing; with n > capacity the
\* capacity becomes exactly n, and the size and the elements are unchanged.
C9_Reserve ==
    last.op = "Reserve" =>
        LET n == last.idx
        IN /\ n <= Pre.capacity => Now = Pre
           /\ n > Pre.capacity =>
                /\ Now.capacity = n
                /\ Now.size = Pre.size
                /\ Now.elems = Pre.elems

\* Reserve of less than twice the capacity of a vector that has elements.
C9_Witness ==
    /\ last.op = "Reserve" /\ last.branch = "grow"
    /\ Pre.size > 0 /\ last.idx < 2 * Pre.capacity

\* C10: At(i) throws out_of_range exactly when i >= size, the dead slots
\* size <= i < capacity included, and then nothing has changed; for i < size
\* it returns element i and throws nothing.
C10_At ==
    last.op = "At" =>
        /\ (last.err = "out_of_range") <=> (last.idx >= Pre.size)
        /\ last.err \in {"", "out_of_range"}
        /\ Now = Pre
        /\ last.idx < Pre.size => last.ret = Pre.elems[last.idx + 1]

\* At on a dead slot of the block.
C10_Witness ==
    /\ last.op = "At" /\ last.err = "out_of_range"
    /\ Pre.size <= last.idx /\ last.idx < Pre.capacity
    /\ Pre.size > 0

\* A call on object t that changes the vector: an element write, PushBack,
\* Insert, Erase, Resize or Clear.
Mutate(t) ==
    \/ \E index \in 0..MaxLen, value \in Val : CallWrite(t, index, value)
    \/ \E item \in Val : CallPushBack(t, item)
    \/ \E offset \in 0..MaxLen, value \in Val : CallInsert(t, offset, value)
    \/ \E offset \in 0..MaxLen : CallErase(t, offset)
    \/ \E new_size \in 0..MaxLen : CallResize(t, new_size)
    \/ CallClear(t)

\* The two objects own no block in common.
BlocksApart(a, b) == a.items_ = Null \/ a.items_ # b.items_

\* The block object t owns, with all its slots.
BlockOf(t) == IF vecs[t].items_ = Null THEN <<>> ELSE heap[vecs[t].items_].data

\* C11: copy-construction from S yields the size and the elements of S and
\* the capacity S.size, in a block that is not the block of S, and leaves S
\* as it was; and an element write, PushBack, Insert, Erase, Resize or Clear
\* on one object changes neither the size, the capacity nor the elements of
\* the other (nor any slot of its block), the copy and its source included.  (Such a call leaves no
\* record and assigns the fields of its own object only, so a step that
\* leaves a record or changes the fields of the other object is none; of the
\* remaining steps, each leaves the other object with what it had or is no
\* such call.)
C11_CopyConstruct ==
    [][IF last'.op = "ConstructCopy"
       THEN \A t \in VecId : \A o \in VecId \ {t} :
                IsPairCall(last', "ConstructCopy", t, o) =>
                    /\ AbsOf(t)' = [size |-> vecs[o].size_, capacity |-> vecs[o].size_,
                                    elems |-> AbsOf(o).elems]
                    /\ BlocksApart(vecs[t], vecs[o])'
                    /\ (vecs[t].size_ > 0 => heap[vecs[t].items_].live)'
                    /\ vecs'[o] = vecs[o]
                    /\ AbsOf(o)' = AbsOf(o)
       ELSE last'.op = "none" =>
                \A o \in VecId :
                    \/ ~vecs[o].alive
                    \/ vecs'[o] # vecs[o]
                    \/ BlockOf(o)' = BlockOf(o)
                    \/ \A t \in VecId \ {o} : ~Mutate(t)
      ]_vars

\* A copy just made of a vector that has an element and a dead slot.
C11_Witness ==
    /\ last.op = "ConstructCopy"
    /\ vecs[last.other].size_ > 0
    /\ vecs[last.other].capacity_ > vecs[last.other].size_
    /\ vecs[last.self].capacity_ = vecs[last.other].size_
    /\ Elems(Mem, vecs[last.self]) = Elems(Mem, vecs[last.other])

\* C12: a = b with b empty (whatever its capacity) leaves a with size 0,
\* capacity 0 and no block, the block a had being freed; a = b with b not
\* empty leaves a with the elements and the size of b and the capacity b.size,
\* in a block that is not the block of b.  In both cases b is as it was.
\* a = a changes nothing, also when a is empty with a capacity.
C12_CopyAssign ==
    [][\A t \in VecId :
        /\ \A o \in VecId \ {t} :
            IsPairCall(last', "CopyAssign", t, o) =>
                /\ vecs[o].size_ = 0 =>
                    /\ vecs'[t] = [alive |-> TRUE, items_ |-> Null, size_ |-> 0,
                                   capacity_ |-> 0]
                    /\ vecs[t].items_ # Null => ~heap'[vecs[t].items_].live
                /\ vecs[o].size_ > 0 =>
                    /\ AbsOf(t)' = [size |-> vecs[o].size_, capacity |-> vecs[o].size_,
                                    elems |-> AbsOf(o).elems]
                    /\ vecs'[t].items_ # Null /\ heap'[vecs'[t].items_].live
                    /\ BlocksApart(vecs[t], vecs[o])'
                /\ vecs'[o] = vecs[o]
                /\ AbsOf(o)' = AbsOf(o)
                /\ faults' = faults
        /\ \/ UNCHANGED <<heap, faults, vecs>>
           \/ ~CallCopyAssign(t, t)
      ]_vars

\* a = b just made, a having had elements and b being empty with a capacity.
C12_Witness ==
    /\ last.op = "CopyAssign"
    /\ last.pre.size > 0
    /\ vecs[last.other].size_ = 0 /\ vecs[last.other].capacity_ > 0
    /\ vecs[last.self].capacity_ = 0

\* C13: move-construction from S yields a vector with the block, the size,
\* the capacity and the elements S had, and leaves S alive with size 0,
\* capacity 0 and no block; nothing is allocated or freed.  S is usable
\* afterwards: PushBack(x) on it gives <<x>> with capacity 1.
C13_MoveConstruct ==
    [][\A t \in VecId : \A o \in VecId \ {t} :
        /\ IsPairCall(last', "ConstructMove", t, o) =>
            /\ vecs'[t] = [alive |-> TRUE, items_ |-> vecs[o].items_,
                           size_ |-> vecs[o].size_, capacity_ |-> vecs[o].capacity_]
            /\ AbsOf(t)' = AbsOf(o)
            /\ vecs'[o] = [alive |-> TRUE, items_ |-> Null, size_ |-> 0, capacity_ |-> 0]
            /\ UNCHANGED <<heap, faults>>
        /\ IsPairCall(last, "ConstructMove", t, o) =>
            \A item \in Val :
                CallPushBack(o, item) =>
                    /\ AbsOf(o)' = [size |-> 1, capacity |-> 1, elems |-> <<item>>]
                    /\ BlocksApart(vecs[o], vecs[t])'
                    /\ AbsOf(t)' = AbsOf(t)
                    /\ faults' = faults
      ]_vars

\* A vector just move-constructed from one that had elements and a dead slot.
C13_Witness ==
    /\ last.op = "ConstructMove"
    /\ vecs[last.self].size_ > 0
    /\ vecs[last.self].capacity_ > vecs[last.self].size_
    /\ vecs[last.other].alive /\ vecs[last.other].capacity_ = 0

\* C14: a = std::move(b) with a and b distinct exchanges the states of a and
\* b: a has the block, size, capacity and elements b had, b has those a had
\* (b is not emptied), and nothing is allocated or freed; a = std::move(a)
\* changes nothing.
C14_MoveAssign ==
    [][\A t \in VecId :
        /\ \A o \in VecId \ {t} :
            IsPairCall(last', "MoveAssign", t, o) =>
                /\ vecs'[t] = vecs[o]
                /\ vecs'[o] = vecs[t]
                /\ AbsOf(t)' = AbsOf(o)
                /\ AbsOf(o)' = AbsOf(t)
                /\ UNCHANGED <<heap, faults>>
        /\ \/ UNCHANGED <<heap, faults, vecs>>
           \/ ~CallMoveAssign(t, t)
      ]_vars

\* a = std::move(b) just made, a and b having had elements, and not as many.
C14_Witness ==
    /\ last.op = "MoveAssign"
    /\ last.pre.size > 0
    /\ vecs[last.self].size_ > last.pre.size
    /\ AbsOf(last.other) = last.pre

\* The vector a move took from is empty: size 0, capacity 0, no block.
MovedFromEmpty(v) == v.alive /\ v.items_ = Null /\ v.size_ = 0 /\ v.capacity_ = 0

\* The vector is valid: size <= capacity, and its block, when it has one, is
\* live, holds capacity slots at least and is the block of no other object.
Valid(t) ==
    /\ vecs[t].alive
    /\ vecs[t].size_ <= vecs[t].capacity_
    /\ vecs[t].capacity_ > 0 =>
        /\ vecs[t].items_ # Null
        /\ heap[vecs[t].items_].live
        /\ Len(heap[vecs[t].items_].data) >= vecs[t].capacity_
    /\ \A u \in VecId \ {t} : BlocksApart(vecs[t], vecs[u])

\* C15 as stated: after move-construction and after move-assignment alike
\* the moved-from vector has size 0, capacity 0 and no block.
C15_MovedFromEmptyAlways ==
    last.op \in {"ConstructMove", "MoveAssign"} => MovedFromEmpty(vecs[last.other])

\* C15 amended: after move-construction the moved-from vector has size 0,
\* capacity 0 and no block; after move-assignment a = std::move(b) it is
\* valid and holds what a held before, so it is empty exactly when a was.
C15_MovedFromValid ==
    /\ last.op = "ConstructMove" =>
        MovedFromEmpty(vecs[last.other]) /\ Valid(last.other)
    /\ last.op = "MoveAssign" =>
        /\ Valid(last.other)
        /\ AbsOf(last.other) = last.pre
        /\ MovedFromEmpty(vecs[last.other]) =>
            last.pre = [size |-> 0, capacity |-> 0, elems |-> <<>>]

\* A vector moved from by assignment that holds the elements the target had.
C15_Witness ==
    /\ last.op = "MoveAssign"
    /\ vecs[last.other].size_ > 0
    /\ vecs[last.other].capacity_ > vecs[last.other].size_
    /\ vecs[last.self].size_ > 0

\* Some slot of [size, capacity) of the vector holds a written value.
HasStaleSlot(t) ==
    \E i \in vecs[t].size_..(vecs[t].capacity_ - 1) :
        Load(Mem, vecs[t].items_, i) # Uninit

\* C16: for all vectors A and B, of any size and capacity, A == B exactly
\* when the sizes are equal and A[i] = B[i] for every i < size; that is
\* exactly when A <=> B is equal; A != B is the negation; and the result is
\* that of the element sequences alone, whatever the capacities and the
\* slots [size, capacity) hold.
C16_Equality ==
    \A a, b \in VecId :
        (vecs[a].alive /\ vecs[b].alive) =>
            LET A == vecs[a]
                B == vecs[b]
                eq == OpEq(Mem, A, B)
            IN /\ eq <=>
                    /\ A.size_ = B.size_
                    /\ \A i \in 0..(A.size_ - 1) :
                          Load(Mem, A.items_, i) = Load(Mem, B.items_, i)
               /\ eq <=> (ThreeWay(Mem, A, B) = "equal")
               /\ OpNe(Mem, A, B) <=> ~eq
               /\ eq <=> (Elems(Mem, A) = Elems(Mem, B))

\* Two vectors that compare equal, with different capacities and a stale
\* value in a dead slot.
C16_Witness ==
    \E a, b \in VecId :
        /\ a # b /\ vecs[a].alive /\ vecs[b].alive
        /\ vecs[a].size_ > 0
        /\ vecs[a].capacity_ # vecs[b].capacity_
        /\ HasStaleSlot(a)
        /\ OpEq(Mem, vecs[a], vecs[b])

\* x is a strict prefix of y.
StrictPrefix(x, y) == Len(x) < Len(y) /\ SubSeq(y, 1, Len(x)) = x

\* x comes before y in the lexicographic order: they agree on the first k
\* elements, and there x ends and y goes on, or x has the smaller element.
LexLess(x, y) ==
    \E k \in 0..Len(x) :
        /\ k <= Len(y)
        /\ \A i \in 1..k : x[i] = y[i]
        /\ IF k = Len(x) THEN k < Len(y) ELSE k < Len(y) /\ x[k + 1] < y[k + 1]

\* C17: for all vectors A and B exactly one of A < B, A == B, A > B holds;
\* the order is the lexicographic order of the elements [0, size), so a
\* strict prefix (the empty vector against a non-empty one included) is
\* smaller; and A <= B is not A > B, A >= B is not A < B.
C17_Ordering ==
    \A a, b \in VecId :
        (vecs[a].alive /\ vecs[b].alive) =>
            LET A == vecs[a]
                B == vecs[b]
                x == Elems(Mem, A)
                y == Elems(Mem, B)
                lt == OpLt(Mem, A, B)
                eq == OpEq(Mem, A, B)
                gt == OpGt(Mem, A, B)
            IN /\ lt \/ eq \/ gt
               /\ ~(lt /\ eq) /\ ~(lt /\ gt) /\ ~(eq /\ gt)
               /\ lt <=> LexLess(x, y)
               /\ gt <=> LexLess(y, x)
               /\ StrictPrefix(x, y) => lt
               /\ OpLe(Mem, A, B) <=> ~gt
               /\ OpGe(Mem, A, B) <=> ~lt

\* A vector with an element and a stale dead slot that is a strict prefix of
\* the other, and smaller.
C17_Witness ==
    \E a, b \in VecId :
        /\ vecs[a].alive /\ vecs[b].alive
        /\ vecs[a].size_ > 0 /\ HasStaleSlot(a)
        /\ StrictPrefix(AbsOf(a).elems, AbsOf(b).elems)
        /\ OpLt(Mem, vecs[a], vecs[b]) /\ OpGe(Mem, vecs[b], vecs[a])

\* The live instances that own block a, and the caller when Release() handed
\* it the block.
OwnersOf(a) ==
    Cardinality({t \in VecId : vecs[t].alive /\ vecs[t].items_ = a})
        + Cardinality({p \in PtrId : ptrs[p].alive /\ ptrs[p].ptr_ = a})
        + (IF a \in released THEN 1 ELSE 0)

\* No block has two owners; a block in use has one, so none has leaked; a
\* block that has an owner is in use, so none was freed under its owner; no
\* delete[] met a block that was freed before.
ExclusiveOwnership ==
    /\ \A a \in Addr :
        /\ OwnersOf(a) <= 1
        /\ heap[a].live <=> OwnersOf(a) = 1
    /\ "double_free" \notin faults

\* C18: over any calls on ArrayPtr objects (construction from a size,
\* move-construction, move-assignment, swap, Release, destruction) and on
\* the SimpleVector objects built on them (growth, Resize, Reserve, copy and
\* move construction and assignment, swap, destruction), no block is owned
\* by two live instances, none is freed twice or while another instance owns
\* it, and every block in use has its owner, so that once all instances are
\* destroyed only the blocks handed out by Release remain; ArrayPtr(0) owns
\* nothing, a moved-from ArrayPtr owns nothing and its block is with the
\* target, and Release leaves the object owning nothing and the block in use.
C18_ExclusiveOwnership ==
    [][/\ ExclusiveOwnership'
       /\ \A p \in PtrId :
            /\ PtrConstructSize(p, 0) => ptrs'[p] = [alive |-> TRUE, ptr_ |-> Null]
            /\ PtrRelease(p) =>
                /\ ptrs'[p].ptr_ = Null
                /\ heap' = heap
                /\ ptrs[p].ptr_ # Null => ptrs[p].ptr_ \in released'
            /\ PtrDestroy(p) =>
                (ptrs[p].ptr_ # Null => ~heap'[ptrs[p].ptr_].live)
            /\ \A q \in PtrId \ {p} :
                /\ PtrConstructMove(p, q) =>
                    /\ ptrs'[q] = [alive |-> TRUE, ptr_ |-> Null]
                    /\ ptrs'[p].ptr_ = ptrs[q].ptr_
                    /\ heap' = heap
                /\ PtrMoveAssign(p, q) =>
                    /\ ptrs'[q] = [alive |-> TRUE, ptr_ |-> Null]
                    /\ ptrs'[p].ptr_ = ptrs[q].ptr_
                    /\ ptrs[p].ptr_ # Null => ~heap'[ptrs[p].ptr_].live
            /\ PtrMoveAssign(p, p) => UNCHANGED <<heap, faults, ptrs, released>>
       /\ ((\A t \in VecId : ~vecs'[t].alive) /\ (\A p \in PtrId : ~ptrs'[p].alive))
            => {a \in Addr : heap'[a].live} = released'
      ]_vars

\* Every instance is destroyed, a block that Release handed out is in use,
\* and the other blocks that were allocated are freed.
C18_Witness ==
    /\ \A t \in VecId : ~vecs[t].alive
    /\ \A p \in PtrId : ~ptrs[p].alive
    /\ released # {}
    /\ {a \in Addr : heap[a].live} = released
    /\ \E a \in Addr \ released : \A b \in released : a < b

\* The number of slots of the block the vector owns; 0 when it owns none.
BlockLen(v) == IF v.items_ = Null THEN 0 ELSE Len(heap[v.items_].data)

\* C19: in every reachable state the block a vector owns has exactly
\* capacity slots, and none is owned when the capacity is 0; after Reserve(n)
\* with n > capacity the block has exactly n slots.
C19_BlockSizedToCapacity ==
    vecs[Subject].alive =>
        /\ BlockLen(vecs[Subject]) = vecs[Subject].capacity_
        /\ (last.op = "Reserve" /\ last.branch = "grow") =>
                BlockLen(vecs[Subject]) = last.idx

====
